---- MODULE Spec2Model ----
(***************************************************************************)
(* Model of CredentialParser/OutputHandler.py: the OutputHandler base      *)
(* class (lock-protected output, attach/detach reference count, done) and  *)
(* the PostgresHandler sink (batched commit, bounded history, rollback and *)
(* replay).  Producers are threads that call attach(), detach() and        *)
(* output(params) on one PostgresHandler instance.                         *)
(***************************************************************************)
EXTENDS Integers, Sequences, FiniteSets, TLC

\* ------------------------------------------------------------------ bounds
MaxCalls == 3        \* output() calls in a run of Spec
MaxAttach == 1       \* attach() calls in a run of Spec
MaxDetach == 1       \* detach() calls in a run of Spec
SeqCalls == 5        \* output() calls in a run of SpecSeq
SeqAttach == 2       \* attach() calls in a run of SpecSeq
SeqDetach == 3       \* detach() calls in a run of SpecSeq
LongCalls == 2002    \* output() calls in a run of SpecLong
MaxFreq == 2         \* largest commitfreq a handler is constructed with
SeqFreq == 3         \* a further commitfreq for the handler of SpecSeq
RaceAttach == 2      \* attach() calls in a run of SpecRace
TwoCalls == 2        \* PostgresHandler.output() calls in a run of SpecTwo
FileCalls == 2       \* FileHandler.output() calls in a run of SpecTwo

\* The producer threads, and the parameter tuples they submit.  The handler
\* never inspects a tuple: it stores it and hands it to cursor.execute.
Threads == {1, 2}
Records == {1, 2}

\* ------------------------------------------------------- program constants
\* (self.commitfreq or 1000) * 2 : the history deque's maxlen
DefaultFreq == 1000

\* commitfreq: int = None.  None is the empty tuple, an integer k is <<k>>.
None == <<>>
CommitFreqs == {None} \cup {<<k>> : k \in 1..MaxFreq}
SeqCommitFreqs == CommitFreqs \cup {<<SeqFreq>>}

\* psycopg2 outcomes of cursor.execute / conn.commit / conn.rollback
ExecuteResults == {"ok", "Error", "UnicodeDecodeError"}
CallResults == {"ok", "Error"}

VARIABLES
  output_count,    \* OutputHandler.output_count
  attached_count,  \* OutputHandler.attached_count
  lock,            \* OutputHandler.lock : TRUE when held.  It is the Lock made
                   \* once as the default argument of OutputHandler.__init__,
                   \* which every handler built by super().__init__() stores
  autocommit,      \* PostgresHandler.autocommit
  commitfreq,      \* PostgresHandler.commitfreq
  uncommitted,     \* PostgresHandler.uncommitted
  history,         \* PostgresHandler.history (deque with maxlen)
  cursor_closed,   \* self.cursor has been closed
  conn_closed,     \* self.conn has been closed
  pc,              \* per thread: position in the method it is running
  params,          \* per thread: argument of the running output() call
  tmp,             \* per thread: value loaded by attached_count += 1 / -= 1
  last_hist,       \* per thread: entries left in retry()'s for loop
  ops,             \* per thread: connection calls issued by the running call
  u0,              \* per thread: uncommitted when the running call took the lock
  nattach,         \* attach() calls so far
  ndetach,         \* detach() calls so far
  ndone,           \* done() invocations so far
  nexecuted,       \* output() calls whose insert has reached the cursor
  clean,           \* every insert so far succeeded
  underflow,       \* some detach() has taken attached_count below zero
  replayed,        \* per thread: history entries retry() has re-executed so far
  written,         \* tuples inserted by do_output since the last successful commit
                   \* (the most recent maxlen + 1 of them: retry() can select at
                   \* most maxlen, so a longer run differs from any selection)
  file_output_count  \* output_count of a second, default-constructed FileHandler

handler == <<output_count, attached_count, lock>>
config == <<autocommit, commitfreq>>
postgres == <<uncommitted, history, cursor_closed, conn_closed>>
locals == <<pc, params, tmp, last_hist, ops, u0>>
counters == <<nattach, ndetach, ndone, nexecuted, clean, underflow>>
recovery == <<replayed, written>>
filehandler == <<file_output_count>>
vars == <<handler, config, postgres, locals, counters, recovery, filehandler>>

\* ----------------------------------------------------------------- helpers
Min(a, b) == IF a <= b THEN a ELSE b
Max(a, b) == IF a >= b THEN a ELSE b

\* the history sized 2 * max(commitfreq, 1), an unset commitfreq counting as 0
CapacityTwiceThreshold(cf) == 2 * Max(IF cf = None THEN 0 ELSE cf[1], 1)

\* deque([], (self.commitfreq or 1000) * 2)
Capacity(cf) == (IF cf = None \/ cf[1] = 0 THEN DefaultFreq ELSE cf[1]) * 2

\* deque.append on a bounded deque: the oldest entry is discarded when full
DequeAppend(h, x, cap) ==
  IF Len(h) < cap THEN Append(h, x) ELSE Append(Tail(h), x)

\* check_commit with the comparison off by one
CommitDueLate(auto, cf, u) == ~auto /\ cf # None /\ u > cf[1]

\* check_commit without line 195-196: autocommit does not skip the threshold
CommitDueWithAutocommit(auto, cf, u) == cf # None /\ u >= cf[1]

\* check_commit's test: a commit is due
CommitDue(auto, cf, u) == ~auto /\ cf # None /\ u >= cf[1]

\* retry replaying the whole history instead of its last lastn entries
LastNWhole(h, lastn) == h

\* islice(self.history, len(self.history) - lastn, len(self.history))
LastN(h, lastn) == SubSeq(h, Len(h) - lastn + 1, Len(h))

\* the outcomes a call on the connection / cursor can have: once closed,
\* psycopg2 raises InterfaceError (a psycopg2.Error) on every use
ExecuteOutcomes == IF cursor_closed \/ conn_closed THEN {"Error"} ELSE ExecuteResults
ConnOutcomes == IF conn_closed THEN {"Error"} ELSE CallResults

Op(kind, result) == <<kind, result>>
Kinds(s) == [i \in 1..Len(s) |-> s[i][1]]

Waiting == Cardinality({t \in Threads : pc[t] = "acquire"})
FileWaiting == Cardinality({t \in Threads : pc[t] = "file_acquire"})

TypeOK ==
  /\ output_count \in Nat
  /\ attached_count \in Int
  /\ lock \in BOOLEAN
  /\ autocommit \in BOOLEAN
  /\ commitfreq \in SeqCommitFreqs
  /\ uncommitted \in Nat
  /\ Len(history) <= Capacity(commitfreq)
  /\ cursor_closed \in BOOLEAN /\ conn_closed \in BOOLEAN
  /\ file_output_count \in Nat

\* The state after PostgresHandler(..., autocommit, commitfreq) with
\* commitfreq drawn from freqs.
Construct(freqs) ==
  /\ output_count = 0
  /\ attached_count = 0
  /\ lock = FALSE
  /\ autocommit \in BOOLEAN
  /\ commitfreq \in freqs
  /\ uncommitted = 0
  /\ history = <<>>
  /\ cursor_closed = FALSE
  /\ conn_closed = FALSE
  /\ pc = [t \in Threads |-> "idle"]
  /\ params = [t \in Threads |-> 0]
  /\ tmp = [t \in Threads |-> 0]
  /\ last_hist = [t \in Threads |-> <<>>]
  /\ ops = [t \in Threads |-> <<>>]
  /\ u0 = [t \in Threads |-> 0]
  /\ nattach = 0
  /\ ndetach = 0
  /\ ndone = 0
  /\ nexecuted = 0
  /\ clean = TRUE
  /\ underflow = FALSE
  /\ replayed = [t \in Threads |-> <<>>]
  /\ written = <<>>
  /\ file_output_count = 0

Init == Construct(CommitFreqs)

\* ---------------------------------------------------- OutputHandler.output
\* a producer calls output(p) (or the handler itself, __call__)
output_call(t, p, max) ==
  /\ pc[t] = "idle"
  /\ output_count + Waiting < max
  /\ pc' = [pc EXCEPT ![t] = "acquire"]
  /\ params' = [params EXCEPT ![t] = p]
  /\ UNCHANGED <<handler, config, postgres, tmp, last_hist, ops, u0, counters, recovery, filehandler>>

\* output() entering without waiting for the lock to be free
acquire_unlocked(t) ==
  /\ pc[t] = "acquire"
  /\ lock' = TRUE
  /\ output_count' = output_count + 1
  /\ pc' = [pc EXCEPT ![t] = "do_output"]
  /\ u0' = [u0 EXCEPT ![t] = uncommitted]
  /\ UNCHANGED <<attached_count, config, postgres, params, tmp, last_hist, ops, counters, recovery, filehandler>>

\* self.lock.acquire(); self.output_count += 1
acquire(t) ==
  /\ pc[t] = "acquire"
  /\ lock = FALSE
  /\ lock' = TRUE
  /\ output_count' = output_count + 1
  /\ pc' = [pc EXCEPT ![t] = "do_output"]
  /\ u0' = [u0 EXCEPT ![t] = uncommitted]
  /\ UNCHANGED <<attached_count, config, postgres, params, tmp, last_hist, ops, counters, recovery, filehandler>>

\* self.lock.release(), and output() returns
release(t) ==
  /\ pc[t] = "release"
  /\ lock' = FALSE
  /\ pc' = [pc EXCEPT ![t] = "idle"]
  /\ ops' = [ops EXCEPT ![t] = <<>>]
  /\ params' = [params EXCEPT ![t] = 0]
  /\ u0' = [u0 EXCEPT ![t] = 0]
  /\ replayed' = [replayed EXCEPT ![t] = <<>>]
  /\ UNCHANGED <<output_count, attached_count, config, postgres, tmp, last_hist, counters, written, filehandler>>

\* count_and_check without line 199: a threshold commit leaves uncommitted
\* as it is
count_and_check_no_reset(t, first, h, w) ==
  /\ history' = h
  /\ IF CommitDue(autocommit, commitfreq, uncommitted + 1)
       THEN \E c \in ConnOutcomes :
              /\ ops' = [ops EXCEPT ![t] = <<first, Op("commit", c)>>]
              /\ uncommitted' = uncommitted + 1
              /\ written' = IF c = "ok" THEN <<>> ELSE w
       ELSE /\ ops' = [ops EXCEPT ![t] = <<first>>]
            /\ uncommitted' = uncommitted + 1
            /\ written' = w
  /\ pc' = [pc EXCEPT ![t] = "release"]
  /\ UNCHANGED <<handler, config, cursor_closed, conn_closed, params, tmp, last_hist, u0,
                 nattach, ndetach, ndone, underflow, replayed, filehandler>>

\* ------------------------------------------- PostgresHandler.do_output
\* self.uncommitted += 1; self.check_commit()  (lines 184-185, 194-199):
\* the tail of do_output, reached after a successful execute and after a
\* UnicodeDecodeError.  first is the connection call already issued, h the
\* history and w the tuples written since the last commit, after that call.
count_and_check(t, first, h, w) ==
  /\ history' = h
  /\ IF CommitDue(autocommit, commitfreq, uncommitted + 1)
       THEN \E c \in ConnOutcomes :
              /\ ops' = [ops EXCEPT ![t] = <<first, Op("commit", c)>>]
              /\ uncommitted' = 0
              /\ written' = IF c = "ok" THEN <<>> ELSE w
       ELSE /\ ops' = [ops EXCEPT ![t] = <<first>>]
            /\ uncommitted' = uncommitted + 1
            /\ written' = w
  /\ pc' = [pc EXCEPT ![t] = "release"]
  /\ UNCHANGED <<handler, config, cursor_closed, conn_closed, params, tmp, last_hist, u0,
                 nattach, ndetach, ndone, underflow, replayed, filehandler>>

\* cursor.execute succeeds
execute_ok(t) ==
  /\ pc[t] = "do_output"
  /\ "ok" \in ExecuteOutcomes
  /\ nexecuted' = nexecuted + 1
  /\ clean' = clean
  /\ count_and_check(t, Op("execute", "ok"),
                     IF autocommit THEN history
                     ELSE DequeAppend(history, params[t], Capacity(commitfreq)),
                     IF autocommit THEN written
                     ELSE DequeAppend(written, params[t], Capacity(commitfreq) + 1))

\* cursor.execute raises UnicodeDecodeError: printed, logged, and control
\* falls out of the try statement
execute_decode_error(t) ==
  /\ pc[t] = "do_output"
  /\ "UnicodeDecodeError" \in ExecuteOutcomes
  /\ nexecuted' = nexecuted + 1
  /\ clean' = FALSE
  /\ count_and_check(t, Op("execute", "UnicodeDecodeError"), history, written)

\* cursor.execute raises psycopg2.Error: retry(self.uncommitted) unless
\* autocommit, then return.  retry: nothing when lastn == 0; else rollback
\* (an error of rollback propagates), then islice, which raises ValueError
\* on a negative start.
execute_error(t) ==
  /\ pc[t] = "do_output"
  /\ "Error" \in ExecuteOutcomes
  /\ nexecuted' = nexecuted + 1
  /\ clean' = FALSE
  /\ IF autocommit \/ uncommitted = 0
       THEN /\ ops' = [ops EXCEPT ![t] = <<Op("execute", "Error")>>]
            /\ pc' = [pc EXCEPT ![t] = "release"]
            /\ UNCHANGED last_hist
       ELSE \E r \in ConnOutcomes :
              /\ ops' = [ops EXCEPT ![t] = <<Op("execute", "Error"), Op("rollback", r)>>]
              /\ IF r = "Error"
                   THEN /\ pc' = [pc EXCEPT ![t] = "raised"]
                        /\ UNCHANGED last_hist
                   ELSE IF uncommitted > Len(history)
                     THEN /\ pc' = [pc EXCEPT ![t] = "raised"]
                          /\ UNCHANGED last_hist
                     ELSE /\ pc' = [pc EXCEPT ![t] = "retry"]
                          /\ last_hist' = [last_hist EXCEPT ![t] = LastN(history, uncommitted)]
  /\ UNCHANGED <<handler, config, postgres, params, tmp, u0, nattach, ndetach, ndone,
                 underflow, recovery, filehandler>>

\* retry() with the try around the whole for loop: the first replayed insert
\* that fails ends the replay
retry_step_stop_at_failure(t) ==
  /\ pc[t] = "retry"
  /\ last_hist[t] # <<>>
  /\ \E e \in ExecuteOutcomes \ {"UnicodeDecodeError"} :
       IF e = "Error"
         THEN /\ ops' = [ops EXCEPT ![t] = Append(@, Op("retry_execute", "Error"))]
              /\ UNCHANGED <<uncommitted, written>>
         ELSE \E c \in ConnOutcomes :
                /\ ops' = [ops EXCEPT ![t] = @ \o <<Op("retry_execute", "ok"),
                                                    Op("retry_commit", c)>>]
                /\ uncommitted' = IF c = "ok" THEN 0 ELSE uncommitted
                /\ written' = IF c = "ok" THEN <<>> ELSE written
  /\ replayed' = [replayed EXCEPT ![t] = Append(@, Head(last_hist[t]))]
  /\ last_hist' = [last_hist EXCEPT ![t] = IF Kinds(ops'[t])[Len(ops'[t])] = "retry_commit"
                                            THEN Tail(@) ELSE <<>>]
  /\ pc' = [pc EXCEPT ![t] = IF last_hist'[t] = <<>> THEN "release" ELSE "retry"]
  /\ UNCHANGED <<handler, config, history, cursor_closed, conn_closed, params, tmp, u0,
                 counters, filehandler>>

\* one iteration of retry()'s for loop: execute, commit, uncommitted = 0;
\* a psycopg2.Error of either call is logged and the loop goes on.  Every
\* history entry was encoded by an earlier successful execute, so a replay
\* does not meet a UnicodeDecodeError.
retry_step(t) ==
  /\ pc[t] = "retry"
  /\ last_hist[t] # <<>>
  /\ \E e \in ExecuteOutcomes \ {"UnicodeDecodeError"} :
       IF e = "Error"
         THEN /\ ops' = [ops EXCEPT ![t] = Append(@, Op("retry_execute", "Error"))]
              /\ UNCHANGED <<uncommitted, written>>
         ELSE \E c \in ConnOutcomes :
                /\ ops' = [ops EXCEPT ![t] = @ \o <<Op("retry_execute", "ok"),
                                                    Op("retry_commit", c)>>]
                /\ uncommitted' = IF c = "ok" THEN 0 ELSE uncommitted
                /\ written' = IF c = "ok" THEN <<>> ELSE written
  /\ replayed' = [replayed EXCEPT ![t] = Append(@, Head(last_hist[t]))]
  /\ last_hist' = [last_hist EXCEPT ![t] = Tail(@)]
  /\ pc' = [pc EXCEPT ![t] = IF Tail(last_hist[t]) = <<>> THEN "release" ELSE "retry"]
  /\ UNCHANGED <<handler, config, history, cursor_closed, conn_closed, params, tmp, u0,
                 counters, filehandler>>

\* ------------------------------------------- OutputHandler.attach / detach
\* self.attached_count += 1 : load
attach_load(t, max) ==
  /\ pc[t] = "idle"
  /\ nattach < max
  /\ nattach' = nattach + 1
  /\ tmp' = [tmp EXCEPT ![t] = attached_count]
  /\ pc' = [pc EXCEPT ![t] = "attach_store"]
  /\ UNCHANGED <<handler, config, postgres, params, last_hist, ops, u0,
                 ndetach, ndone, nexecuted, clean, underflow, recovery, filehandler>>

\* self.attached_count += 1 : store
attach_store(t) ==
  /\ pc[t] = "attach_store"
  /\ attached_count' = tmp[t] + 1
  /\ tmp' = [tmp EXCEPT ![t] = 0]
  /\ pc' = [pc EXCEPT ![t] = "idle"]
  /\ UNCHANGED <<output_count, lock, config, postgres, params, last_hist, ops, u0, counters, recovery, filehandler>>

\* self.attached_count -= 1 : load
detach_load(t, max) ==
  /\ pc[t] = "idle"
  /\ ndetach < max
  /\ ndetach' = ndetach + 1
  /\ tmp' = [tmp EXCEPT ![t] = attached_count]
  /\ pc' = [pc EXCEPT ![t] = "detach_store"]
  /\ UNCHANGED <<handler, config, postgres, params, last_hist, ops, u0,
                 nattach, ndone, nexecuted, clean, underflow, recovery, filehandler>>

\* self.attached_count -= 1 : store
detach_store(t) ==
  /\ pc[t] = "detach_store"
  /\ attached_count' = tmp[t] - 1
  /\ underflow' = (underflow \/ tmp[t] - 1 < 0)
  /\ tmp' = [tmp EXCEPT ![t] = 0]
  /\ pc' = [pc EXCEPT ![t] = "detach_test"]
  /\ UNCHANGED <<output_count, lock, config, postgres, params, last_hist, ops, u0,
                 nattach, ndetach, ndone, nexecuted, clean, recovery, filehandler>>

\* detach() calling done() whenever no reference is left: attached_count <= 0
detach_test_not_positive(t) ==
  /\ pc[t] = "detach_test"
  /\ IF attached_count <= 0
       THEN /\ pc' = [pc EXCEPT ![t] = "done_commit"]
            /\ ndone' = ndone + 1
       ELSE /\ pc' = [pc EXCEPT ![t] = "idle"]
            /\ UNCHANGED ndone
  /\ UNCHANGED <<handler, config, postgres, params, tmp, last_hist, ops, u0,
                 nattach, ndetach, nexecuted, clean, underflow, recovery, filehandler>>

\* if self.attached_count == 0: self.done()
detach_test(t) ==
  /\ pc[t] = "detach_test"
  /\ IF attached_count = 0
       THEN /\ pc' = [pc EXCEPT ![t] = "done_commit"]
            /\ ndone' = ndone + 1
       ELSE /\ pc' = [pc EXCEPT ![t] = "idle"]
            /\ UNCHANGED ndone
  /\ UNCHANGED <<handler, config, postgres, params, tmp, last_hist, ops, u0,
                 nattach, ndetach, nexecuted, clean, underflow, recovery, filehandler>>

\* ------------------------------------------------- PostgresHandler.done
\* done() with the commit error not caught: it leaves done() and detach()
done_commit_uncaught(t) ==
  /\ pc[t] = "done_commit"
  /\ \E c \in ConnOutcomes :
       /\ ops' = [ops EXCEPT ![t] = IF c = "ok" THEN <<Op("commit", c)>> ELSE <<>>]
       /\ pc' = [pc EXCEPT ![t] = IF c = "ok" THEN "done_cursor_close" ELSE "idle"]
       /\ written' = IF c = "ok" THEN <<>> ELSE written
  /\ UNCHANGED <<handler, config, postgres, params, tmp, last_hist, u0, counters,
                 replayed, filehandler>>

\* self.do_commit(): conn.commit(), a psycopg2.Error is logged
done_commit(t) ==
  /\ pc[t] = "done_commit"
  /\ \E c \in ConnOutcomes :
       /\ ops' = [ops EXCEPT ![t] = <<Op("commit", c)>>]
       /\ written' = IF c = "ok" THEN <<>> ELSE written
  /\ pc' = [pc EXCEPT ![t] = "done_cursor_close"]
  /\ UNCHANGED <<handler, config, postgres, params, tmp, last_hist, u0, counters,
                 replayed, filehandler>>

\* self.cursor.close()
done_cursor_close(t) ==
  /\ pc[t] = "done_cursor_close"
  /\ cursor_closed' = TRUE
  /\ ops' = [ops EXCEPT ![t] = Append(@, Op("cursor.close", "ok"))]
  /\ pc' = [pc EXCEPT ![t] = "done_conn_close"]
  /\ UNCHANGED <<handler, config, uncommitted, history, conn_closed, params, tmp,
                 last_hist, u0, counters, recovery, filehandler>>

\* self.conn.close()
done_conn_close(t) ==
  /\ pc[t] = "done_conn_close"
  /\ conn_closed' = TRUE
  /\ ops' = [ops EXCEPT ![t] = Append(@, Op("conn.close", "ok"))]
  /\ pc' = [pc EXCEPT ![t] = "done_return"]
  /\ UNCHANGED <<handler, config, uncommitted, history, cursor_closed, params, tmp,
                 last_hist, u0, counters, recovery, filehandler>>

\* done() and detach() return
detach_return(t) ==
  /\ pc[t] = "done_return"
  /\ ops' = [ops EXCEPT ![t] = <<>>]
  /\ pc' = [pc EXCEPT ![t] = "idle"]
  /\ UNCHANGED <<handler, config, postgres, params, tmp, last_hist, u0, counters, recovery, filehandler>>

\* ------------------------------------------------------------ FileHandler
\* A second handler, FileHandler(filename), built like the PostgresHandler
\* by super().__init__() with no lock argument.  Its file is private and its
\* content is not followed.
\* thread t calls output(params) on the FileHandler
file_output_call(t, max) ==
  /\ pc[t] = "idle"
  /\ file_output_count + FileWaiting < max
  /\ pc' = [pc EXCEPT ![t] = "file_acquire"]
  /\ UNCHANGED <<handler, config, postgres, params, tmp, last_hist, ops, u0, counters,
                 recovery, filehandler>>

\* self.lock.acquire(); self.output_count += 1
file_acquire(t) ==
  /\ pc[t] = "file_acquire"
  /\ lock = FALSE
  /\ lock' = TRUE
  /\ file_output_count' = file_output_count + 1
  /\ pc' = [pc EXCEPT ![t] = "file_do_output"]
  /\ UNCHANGED <<output_count, attached_count, config, postgres, params, tmp, last_hist,
                 ops, u0, counters, recovery>>

\* self.do_output(params): self.file.write(line)
file_do_output(t) ==
  /\ pc[t] = "file_do_output"
  /\ pc' = [pc EXCEPT ![t] = "file_release"]
  /\ UNCHANGED <<handler, config, postgres, params, tmp, last_hist, ops, u0, counters,
                 recovery, filehandler>>

\* self.lock.release(), and output() returns
file_release(t) ==
  /\ pc[t] = "file_release"
  /\ lock' = FALSE
  /\ pc' = [pc EXCEPT ![t] = "idle"]
  /\ UNCHANGED <<output_count, attached_count, config, postgres, params, tmp, last_hist,
                 ops, u0, counters, recovery, filehandler>>

\* ------------------------------------------------------------ specification
\* what a producer thread may do next; the bounds of the run are parameters
Step(t, maxCalls, maxAttach, maxDetach) ==
  \/ \E p \in Records : output_call(t, p, maxCalls)
  \/ acquire(t)
  \/ execute_ok(t)
  \/ execute_decode_error(t)
  \/ execute_error(t)
  \/ retry_step(t)
  \/ release(t)
  \/ attach_load(t, maxAttach)
  \/ attach_store(t)
  \/ detach_load(t, maxDetach)
  \/ detach_store(t)
  \/ detach_test(t)
  \/ done_commit(t)
  \/ done_cursor_close(t)
  \/ done_conn_close(t)
  \/ detach_return(t)

\* the producer threads share the handler
Next == \E t \in Threads : Step(t, MaxCalls, MaxAttach, MaxDetach)

Spec == Init /\ [][Next]_vars

\* one producer thread: every call returns before the next one starts
NextSeq == Step(1, SeqCalls, SeqAttach, SeqDetach)

InitSeq == Construct(SeqCommitFreqs)
SpecSeq == InitSeq /\ [][NextSeq]_vars

\* one producer thread, a handler without autocommit, and every insert
\* succeeds; the n-th call submits the tuple ((n - 1) % 2) + 1
InitLong == Init /\ ~autocommit

SubmittedRecord(n) == ((n - 1) % Cardinality(Records)) + 1

NextLong ==
  \/ output_call(1, SubmittedRecord(output_count + 1), LongCalls)
  \/ acquire(1)
  \/ execute_ok(1)
  \/ release(1)

SpecLong == InitLong /\ [][NextLong]_vars

\* the handler is attached up to RaceAttach times by thread 1 before any
\* consumer finishes; then the threads call detach() concurrently, once for
\* every attach()
NextRace ==
  \/ ndetach = 0 /\ attach_load(1, RaceAttach)
  \/ attach_store(1)
  \/ \E t \in Threads :
       \/ pc[1] # "attach_store" /\ detach_load(t, nattach)
       \/ detach_store(t)
       \/ detach_test(t)
       \/ done_commit(t)
       \/ done_cursor_close(t)
       \/ done_conn_close(t)
       \/ detach_return(t)

SpecRace == Init /\ [][NextRace]_vars

\* the producer threads use two default-constructed handlers, the
\* PostgresHandler and the FileHandler
NextTwo ==
  \E t \in Threads :
    \/ \E p \in Records : output_call(t, p, TwoCalls)
    \/ acquire(t)
    \/ execute_ok(t)
    \/ execute_decode_error(t)
    \/ execute_error(t)
    \/ retry_step(t)
    \/ release(t)
    \/ file_output_call(t, FileCalls)
    \/ file_acquire(t)
    \/ file_do_output(t)
    \/ file_release(t)

SpecTwo == Init /\ [][NextTwo]_vars

\* ------------------------------------------------------------------ claims
InHandle(t) == pc[t] \in {"do_output", "retry", "release"}
InDone(t) == pc[t] \in {"done_commit", "done_cursor_close", "done_conn_close", "done_return"}
CountKind(s, kind) == Cardinality({i \in 1..Len(s) : s[i][1] = kind})
Threshold == commitfreq[1]

\* C1: with autocommit off and commitfreq = k >= 1, while every insert has
\* succeeded, a write issues a commit exactly when it is the k-th, 2k-th, ...
\* write, and uncommitted equals (number of writes) mod k after every write.
C1_CommitEveryKth ==
  (~autocommit /\ commitfreq # None /\ Threshold >= 1 /\ clean) =>
    /\ uncommitted = nexecuted % Threshold
    /\ \A t \in Threads :
         pc[t] = "release" =>
           /\ CountKind(ops[t], "commit") = (IF nexecuted % Threshold = 0 THEN 1 ELSE 0)
           /\ CountKind(ops[t], "rollback") = 0

\* C1 witness: the 4th successful write with commitfreq = 2 has just committed
C1_Witness ==
  /\ ~autocommit /\ commitfreq = <<2>> /\ clean
  /\ nexecuted = 4 /\ pc[1] = "release" /\ uncommitted = 0
  /\ CountKind(ops[1], "commit") = 1

\* the calls a failed write has made so far, when thread t's running output()
\* call met a psycopg2.Error on its insert with autocommit off
FailedWrite(t) ==
  /\ ~autocommit
  /\ ops[t] # <<>>
  /\ ops[t][1] = Op("execute", "Error")

\* n = 0: nothing follows the failed insert.  n > 0: one rollback follows it,
\* then only replay calls, at most n replay inserts.
RecoveryShape(t) ==
  LET s == ops[t]
      n == u0[t]
  IN IF n = 0
       THEN s = <<Op("execute", "Error")>>
       ELSE /\ Len(s) >= 2
            /\ s[2][1] = "rollback"
            /\ CountKind(s, "rollback") = 1
            /\ CountKind(s, "retry_execute") <= n
            /\ \A i \in 3..Len(s) : s[i][1] \in {"retry_execute", "retry_commit"}
            /\ \A i \in 3..Len(s) : s[i][1] = "retry_commit" => s[i - 1][1] = "retry_execute"

\* C2 (as stated): after a driver failure of the insert with uncommitted = n,
\* n > 0 gives exactly one rollback, then at most n replay attempts, each
\* followed by its own commit attempt; n = 0 gives no rollback and no replay.
C2_EachReplayCommits ==
  \A t \in Threads :
    FailedWrite(t) =>
      /\ RecoveryShape(t)
      /\ \A i \in 1..Len(ops[t]) :
           ops[t][i][1] = "retry_execute" =>
             (i < Len(ops[t]) /\ ops[t][i + 1][1] = "retry_commit")

\* C2 (amended): as above, but a commit attempt follows a replay attempt
\* exactly when the replayed insert succeeded; a replay whose insert fails
\* is followed by no commit.
C2_SuccessfulReplayCommits ==
  \A t \in Threads :
    FailedWrite(t) =>
      /\ RecoveryShape(t)
      /\ \A i \in 1..Len(ops[t]) :
           ops[t][i][1] = "retry_execute" =>
             ((i < Len(ops[t]) /\ ops[t][i + 1][1] = "retry_commit")
                <=> ops[t][i][2] = "ok")

\* C2 witness: a recovery with n = 2 out of a history of 3 has replayed both
\* entries, the first failing and the second committing
C2_Witness ==
  /\ FailedWrite(1) /\ pc[1] = "release"
  /\ u0[1] = 2 /\ Len(history) = 3
  /\ ops[1] = <<Op("execute", "Error"), Op("rollback", "ok"),
                Op("retry_execute", "Error"),
                Op("retry_execute", "ok"), Op("retry_commit", "ok")>>

\* C3: output() never raises to its caller, whatever fails inside it (the
\* insert, a threshold commit, the rollback, a replay step), also when a
\* recovery starts with uncommitted larger than len(history).
C3_HandleNeverRaises == \A t \in Threads : pc[t] # "raised"

\* C4: in every sequential order of attach() and detach() calls with as many
\* detach() as attach() calls (no detach() before its attach()),
\* attached_count reaches zero only once and done() is invoked exactly once;
\* and with more detach() than attach() calls done() is never invoked more
\* than once.
C4_FinalizeOnce ==
  /\ ndone <= 1
  /\ ((\A t \in Threads : pc[t] = "idle") /\ nattach > 0 /\ ndetach = nattach
        /\ ~underflow)
       => ndone = 1

\* C5: done() of the Postgres handler issues a commit attempt, then closes
\* the cursor, then closes the connection, in that order, whether or not any
\* write occurred and whatever uncommitted is; a failed final commit does not
\* keep the cursor and the connection from being closed.
C5_FinalCommitThenClose ==
  /\ \A t \in Threads :
       /\ pc[t] = "done_cursor_close" => Kinds(ops[t]) = <<"commit">>
       /\ pc[t] = "done_conn_close" =>
            (Kinds(ops[t]) = <<"commit", "cursor.close">> /\ cursor_closed)
       /\ pc[t] = "done_return" =>
            (Kinds(ops[t]) = <<"commit", "cursor.close", "conn.close">>
               /\ cursor_closed /\ conn_closed)
  /\ (ndone > 0 /\ \A t \in Threads : ~InDone(t)) => (cursor_closed /\ conn_closed)

\* C5 witness: the first done(), on a handler that never wrote, has closed
\* the cursor and the connection after its commit failed
C5_Witness ==
  \E t \in Threads :
    /\ pc[t] = "done_return" /\ ndone = 1 /\ output_count = 0
    /\ ops[t] = <<Op("commit", "Error"), Op("cursor.close", "ok"), Op("conn.close", "ok")>>
    /\ cursor_closed /\ conn_closed

\* C6: while autocommit is off, uncommitted <= len(history) in every
\* reachable state, whatever mix of successful writes, driver failures,
\* decoding failures, commit failures and recoveries came before.
C6_UncommittedWithinHistory == ~autocommit => uncommitted <= Len(history)

\* C8: at most one producer at a time is between lock.acquire() and
\* lock.release() of output(), the lock is held for all of that time, and the
\* inserts reach the cursor in the order the calls took the lock: the call
\* that took it last is the only one whose insert may be outstanding.
C8_OneWriterInLockOrder ==
  /\ Cardinality({t \in Threads : InHandle(t)}) <= 1
  /\ (\E t \in Threads : InHandle(t)) => lock
  /\ nexecuted = output_count - Cardinality({t \in Threads : pc[t] = "do_output"})

\* C8 witness: one producer is replaying inside output() while the other
\* waits for the lock
C8_Witness ==
  \E t, w \in Threads :
    /\ t # w /\ lock
    /\ pc[t] = "retry" /\ ops[t][2] = Op("rollback", "ok")
    /\ pc[w] = "acquire"

\* C9: when the commit that check_commit triggers fails, uncommitted is left
\* unchanged (not reset to 0), so that batch still counts as uncommitted.
C9_FailedCommitKeepsCount ==
  \A t \in Threads :
    (pc[t] = "release" /\ Len(ops[t]) = 2 /\ ops[t][2] = Op("commit", "Error"))
      => uncommitted = u0[t] + 1

\* C10: an output() call whose insert fails with a decoding error changes
\* no state: uncommitted and history are as before the call, no rollback is
\* issued and no commit is triggered.
C10_DecodeFailureChangesNothing ==
  [][\A t \in Threads :
       execute_decode_error(t) =>
         /\ uncommitted' = uncommitted
         /\ history' = history
         /\ ops'[t] = <<Op("execute", "UnicodeDecodeError")>>]_vars

\* the history is the last Min(n, cap) of the n tuples submitted so far, in
\* submission order
HistoryIsWindow(n, cap) ==
  /\ Len(history) = Min(n, cap)
  /\ \A i \in 1..Len(history) : history[i] = SubmittedRecord(n - Len(history) + i)

\* C7 (as stated): with autocommit off and no commitfreq, after N successful
\* writes uncommitted = N and history is the most recent min(N, capacity)
\* tuples in submission order, where capacity = 2 * max(commitfreq, 1).
C7_WindowOfTwiceThreshold ==
  commitfreq = None =>
    /\ uncommitted = nexecuted
    /\ HistoryIsWindow(nexecuted, CapacityTwiceThreshold(commitfreq))

\* C7 (amended): the same with capacity = 2 * (commitfreq or 1000), which is
\* 2000 when no commitfreq is set and 2 * commitfreq when one is.
C7_WindowOfDequeMaxlen ==
  /\ commitfreq = None =>
       (uncommitted = nexecuted /\ HistoryIsWindow(nexecuted, 2 * DefaultFreq))
  /\ commitfreq # None => HistoryIsWindow(nexecuted, 2 * Threshold)

\* C7 witness: without a commitfreq the 2001st successful write has evicted
\* the first tuple from a full history
C7_Witness ==
  /\ commitfreq = None /\ pc[1] = "release"
  /\ nexecuted = 2 * DefaultFreq + 1 /\ uncommitted = nexecuted
  /\ Len(history) = 2 * DefaultFreq
  /\ history[1] = SubmittedRecord(2)

\* C11: the mutex is released at the end of every handle call whatever error
\* occurred inside it, so that no later call is blocked forever: whenever the
\* lock is held, some call is still running between acquire and release.
C11_LockHeldOnlyByRunningCall ==
  lock => \E t \in Threads : InHandle(t)

\* a write fails at the driver right after the threshold commit: commitfreq is
\* 3, the first three inserts succeeded (the third triggered the commit) and
\* thread t's call, the fourth, met a psycopg2.Error and has finished
AfterThresholdCommit(t) ==
  /\ FailedWrite(t) /\ pc[t] = "release"
  /\ commitfreq = <<3>> /\ nexecuted = 4 /\ Len(history) = 3

\* C12 (as stated): in that case one rollback is issued, then one replay
\* attempt of the failed record itself with its own commit, and uncommitted
\* is 0 after the recovery.
C12_RollbackAndReplayOfFailedRecord ==
  \A t \in Threads :
    AfterThresholdCommit(t) =>
      /\ CountKind(ops[t], "rollback") = 1
      /\ replayed[t] = <<params[t]>>
      /\ CountKind(ops[t], "retry_commit") = 1
      /\ uncommitted = 0

\* C12 (amended): in that case uncommitted is already 0, so nothing follows
\* the failed insert: no rollback, no replay, no commit; the failed record is
\* dropped, history is unchanged and uncommitted stays 0.
C12_NothingToRecover ==
  \A t \in Threads :
    AfterThresholdCommit(t) =>
      /\ ops[t] = <<Op("execute", "Error")>>
      /\ replayed[t] = <<>>
      /\ uncommitted = 0

\* C12 witness: the fourth write has failed after the threshold commit of the
\* first three succeeded
C12_Witness ==
  /\ AfterThresholdCommit(1) /\ written = <<>> /\ u0[1] = 0

\* C13: under every interleaving of the concurrent detach() calls that
\* together take attached_count from m to 0, done() is invoked exactly once:
\* never twice, and once every detach() has returned, not zero times.
C13_ConcurrentDetachFinalizesOnce ==
  /\ ndone <= 1
  /\ ((\A t \in Threads : pc[t] = "idle") /\ nattach > 0 /\ ndetach = nattach)
       => ndone = 1

\* thread t is inside output() of the FileHandler, between acquire and release
InFileOutput(t) == pc[t] \in {"file_do_output", "file_release"}

\* C14: the PostgresHandler and the FileHandler each have a lock of their
\* own, so an output() call in progress on one never blocks an output() call
\* on the other: a call waiting for a handler's lock finds it free unless a
\* call on that same handler is in progress.
C14_HandlersDoNotBlockEachOther ==
  \A t \in Threads :
    /\ (pc[t] = "file_acquire" /\ ~\E u \in Threads : InFileOutput(u)) => ~lock
    /\ (pc[t] = "acquire" /\ ~\E u \in Threads : InHandle(u) \/ pc[u] = "raised")
         => ~lock

\* C15: once done() has closed the cursor and the connection, a further
\* output() call is rejected: it makes no call on the cursor or the
\* connection (no insert, commit, rollback or replay).
C15_ClosedSinkRejectsHandle ==
  (cursor_closed /\ conn_closed) =>
    \A t \in Threads : (InHandle(t) \/ pc[t] = "raised") => ops[t] = <<>>

\* the history entries retry(lastn) selects in thread t's running call:
\* islice(history, len - lastn, len) with lastn = uncommitted at the failure
Selected(t) == LastN(history, u0[t])

\* thread t's running call met a psycopg2.Error on its insert, with
\* uncommitted > 0, and the rollback and the islice succeeded
Recovering(t) ==
  /\ FailedWrite(t) /\ Len(ops[t]) >= 2 /\ ops[t][2] = Op("rollback", "ok")
  /\ pc[t] \in {"retry", "release"}

\* C16: the replay is single-pass and best-effort.  During a recovery the
\* entries attempted so far, followed by those still to come, are the
\* selected entries in history order; every attempt is one insert; when the
\* recovery ends every selected entry has been attempted exactly once,
\* whichever of them failed, and the call has made one insert of its own
\* and one rollback (no nested recovery, no further rollback).
C16_ReplaySinglePass ==
  \A t \in Threads :
    Recovering(t) =>
      /\ replayed[t] \o last_hist[t] = Selected(t)
      /\ CountKind(ops[t], "retry_execute") = Len(replayed[t])
      /\ CountKind(ops[t], "rollback") = 1
      /\ CountKind(ops[t], "execute") = 1
      /\ pc[t] = "release" => replayed[t] = Selected(t)

\* C16 witness: a recovery of two entries has ended; the first replayed
\* insert failed and the second was still attempted
C16_Witness ==
  /\ Recovering(1) /\ pc[1] = "release"
  /\ Len(Selected(1)) = 2 /\ replayed[1] = Selected(1)
  /\ ops[1][3] = Op("retry_execute", "Error")
  /\ ops[1][4][1] = "retry_execute"

\* C17: the entries a recovery re-executes are exactly the tuples written
\* since the last successful commit, in submission order: when retry() has
\* made its selection, the selection equals written.
C17_ReplayIsUncommittedWrites ==
  \A t \in Threads :
    (pc[t] = "retry" /\ replayed[t] = <<>>) => last_hist[t] = written

\* C18: with autocommit on, whatever the calls and their outcomes and also
\* with a commitfreq set, history stays empty and an output() call makes its
\* one insert and nothing else: no threshold commit, no rollback, no replay.
C18_AutocommitNoBatching ==
  autocommit =>
    /\ history = <<>>
    /\ \A t \in Threads :
         /\ pc[t] \notin {"retry", "raised"}
         /\ InHandle(t) => (ops[t] = <<>> \/ (Len(ops[t]) = 1 /\ ops[t][1][1] = "execute"))

\* C18 witness: with autocommit on and commitfreq = 1, two writes have
\* succeeded and a third has failed at the driver: no commit, no rollback
C18_Witness ==
  /\ autocommit /\ commitfreq = <<1>>
  /\ uncommitted = 2 /\ nexecuted = 3
  /\ pc[1] = "release" /\ ops[1] = <<Op("execute", "Error")>>

\* C19: done() is invoked only by the detach() that brings attached_count to
\* exactly 0, and by that call itself: a detach() that leaves attached_count
\* at 1 or more returns without done() and the cursor and connection stay
\* open (after attach(); attach(); detach() attached_count is 1), and a
\* detach() that finds 0 goes on into done() before it returns.
C19_FinalizeOnlyAtZero ==
  /\ [](ndone = 0 => (~cursor_closed /\ ~conn_closed))
  /\ [][/\ ndone' # ndone =>
             (attached_count = 0 /\
              \E u \in Threads : pc[u] = "detach_test" /\ pc'[u] = "done_commit")
        /\ \A t \in Threads :
             /\ (pc[t] = "detach_test" /\ pc'[t] # "detach_test") =>
                  IF attached_count = 0
                    THEN pc'[t] = "done_commit" /\ ndone' = ndone + 1
                    ELSE pc'[t] = "idle" /\ ndone' = ndone
             /\ (pc[t] = "detach_test" /\ nattach = 2 /\ ndetach = 1) =>
                  attached_count = 1]_vars

\* C19 witness: after attach(); attach(); detach() the handler is still open
\* with attached_count = 1
C19_Witness ==
  /\ nattach = 2 /\ ndetach = 1 /\ ~underflow
  /\ pc[1] = "idle" /\ attached_count = 1
  /\ ndone = 0 /\ ~cursor_closed /\ ~conn_closed

\* thread t is inside done(), before its last call on the connection
Finalizing(t) == pc[t] \in {"done_commit", "done_cursor_close", "done_conn_close"}

\* C20: done() never runs concurrently with an output() call on the same
\* handler: while one thread is inside done(), no other thread is inside
\* do_output (holding the lock, before its insert or in a recovery).
C20_FinalizeExcludesHandle ==
  \A t, u \in Threads :
    Finalizing(t) => pc[u] \notin {"do_output", "retry"}

====
